---- MODULE Spec2Model ----
(***************************************************************************)
(* NanoPi NEO OLED system monitor.                                         *)
(*                                                                         *)
(* The repository holds two near-duplicate implementations of the class    *)
(* NanoPiOLEDMonitor:                                                      *)
(*   "monitor"   : src/NanoPiNEOOLEDSystemMonitor.py                       *)
(*   "installer" : the nanopi_oled_monitor.py embedded in src/installer.py *)
(* The variable impl says which of the two is running; it is chosen at     *)
(* start and never changes.                                                *)
(*                                                                         *)
(* Threads: the main thread (run, signal_handler, cleanup), the display    *)
(* thread (display_thread), the GPIO callback thread (button_callback,     *)
(* one callback at a time) and, in the installer implementation, one       *)
(* daemon thread per asynchronous sync_ntp call.                           *)
(***************************************************************************)
EXTENDS Integers, Sequences, FiniteSets, Bags, TLC

VARIABLES
    impl,          \* which implementation runs: "monitor" or "installer"
    config,        \* self.config: [timezone, ntp_servers]
    config_file,   \* the stored config file: [state, keys, timezone, ntp_servers]
    disk,          \* "good": every write succeeds; "faulty": a write may fail
    timezone,      \* self.timezone: name of the active pytz zone object
    current_mode,  \* self.current_mode: 0-based index into display_modes
    device,        \* self.device is not None
    gpio,          \* setup_gpio registered button_callback for the buttons
    released,      \* device.cleanup() has been called
    running,       \* self.running
    display_lock,  \* self.display_lock: "free" or the thread holding it
    last_ntp_sync, \* self.last_ntp_sync
    now,           \* time.time()
    mpc,           \* main thread position: in __init__, in run(), or "crashed"
    dpc,           \* display thread position in display_thread()
    bpc,           \* GPIO callback thread: "idle" or "sync" (inside sync_ntp)
    upd,           \* per caller: position inside update_display()
    sent,          \* per caller: what the current update_display transmitted
    fault,         \* per caller: the fault raised in the current update_display
    call,          \* per synchronous caller of sync_ntp: servers tried so far
    threads,       \* bag of the logs of the sync_ntp daemon threads in flight
    returned,      \* the return of sync_ntp made by the step just taken, if any
    next_count,    \* number of NEXT_MODE events handled so far
    cyc,           \* CYCLE_TZ test window: [on, orig, n]
    failed_at,     \* the last sync_ntp call that returned False: [on, valid, at]
    probe          \* one call of a function without side effects: [fn, arg, done, out]

vars == <<impl, gpio, config, config_file, disk, timezone, current_mode, device, released,
          running, display_lock, last_ntp_sync, now, mpc, dpc, bpc, upd,
          sent, fault, call, threads, returned, next_count, cyc, failed_at,
          probe>>

(***************************************************************************)
(* Bounds of the model.                                                    *)
(***************************************************************************)
MaxPresses == 5          \* NEXT_MODE events handled in one run
MaxServers == 2          \* longest stored ntp_servers list
MaxSyncThreads == 2      \* sync_ntp daemon threads alive at once
MaxCycles == 12          \* CYCLE_TZ events in one test window
MaxTzEvents == 2         \* CYCLE_TZ events in one run outside a test window
StartTime == 7200        \* time.time() when the process starts
TimeStep == 3600         \* seconds by which the clock is seen to advance
MaxAdvance == 2          \* number of clock advances in one run
MaxTenths == 800         \* highest temperature reading, in tenths of a degree
MaxDays == 2             \* longest uptime, in whole days

(***************************************************************************)
(* Program constants.                                                      *)
(***************************************************************************)
ntp_sync_interval == 3600
DefaultServers == 2

Impls == {"monitor", "installer"}

display_modes(i) ==
    IF i = "monitor"
    THEN <<"datetime", "system_info", "network_info", "temperature">>
    ELSE <<"datetime", "system_info", "network_info", "temperature", "uptime">>

timezones(i) ==
    IF i = "monitor"
    THEN <<"UTC", "EST", "PST", "GMT", "CET", "JST", "Asia/Shanghai",
           "Europe/London", "America/New_York", "America/Los_Angeles",
           "Asia/Tokyo">>
    ELSE <<"UTC", "US/Eastern", "US/Pacific", "Europe/London", "Europe/Berlin",
           "Asia/Shanghai", "Asia/Tokyo", "Australia/Sydney",
           "America/New_York", "America/Los_Angeles", "Asia/Kolkata">>

\* A zone name pytz has but neither list holds.
UnlistedZone == "Africa/Cairo"

\* pytz.timezone(name) returns a zone; it raises UnknownTimeZoneError for a
\* name that is not in the tz database ("PST" and "JST" are not).
PytzKnows(name) == name \notin {"PST", "JST"}

Range(s) == {s[k] : k \in 1..Len(s)}

\* timezones.index(tz), 0-based; 0 when tz is not in the list.
IndexOrZero(list, tz) ==
    IF tz \in Range(list)
    THEN (CHOOSE k \in 1..Len(list) : list[k] = tz /\ \A j \in 1..(k-1) : list[j] # tz) - 1
    ELSE 0


(***************************************************************************)
(* Config: load_config, save_config.                                       *)
(***************************************************************************)
ConfigKeys == {"timezone", "ntp_servers"}

\* The file does not exist.
AbsentFile ==
    [state |-> "absent", keys |-> {}, timezone |-> "UTC",
     ntp_servers |-> DefaultServers]

\* The file holds no JSON (a truncated or damaged file).
MalformedFile ==
    [state |-> "malformed", keys |-> {}, timezone |-> "UTC",
     ntp_servers |-> DefaultServers]

\* load_config: the defaults, updated with the keys of a readable file.
load_config(file) ==
    [timezone    |-> IF file.state = "ok" /\ "timezone" \in file.keys
                     THEN file.timezone ELSE "UTC",
     ntp_servers |-> IF file.state = "ok" /\ "ntp_servers" \in file.keys
                     THEN file.ntp_servers ELSE DefaultServers]

\* save_config: open(..., 'w') then json.dump; every failure is swallowed.
\* io = "ok": the file holds the config; "open": open() failed, the file is
\* as before; "write": the file was truncated and the dump failed.
save_config(file, cfg, io) ==
    CASE io = "ok"    -> [state |-> "ok", keys |-> ConfigKeys,
                          timezone |-> cfg.timezone,
                          ntp_servers |-> cfg.ntp_servers]
      [] io = "open"  -> file
      [] io = "write" -> MalformedFile

SaveOutcomes(d) == IF d = "good" THEN {"ok"} ELSE {"ok", "open", "write"}

(***************************************************************************)
(* button_callback, first button: the next display mode.                   *)
(***************************************************************************)
NextModeNoWrap(mode, count) == IF mode + 1 < count THEN mode + 1 ELSE mode

NextMode(mode, count) == (mode + 1) % count

(***************************************************************************)
(* cycle_timezone.                                                         *)
(***************************************************************************)
NextTimezoneNoWrap(list, tz) ==
    IF IndexOrZero(list, tz) + 1 < Len(list)
    THEN list[IndexOrZero(list, tz) + 2] ELSE tz

\* timezones[(current_index + 1) % len(timezones)]
NextTimezone(list, tz) == list[((IndexOrZero(list, tz) + 1) % Len(list)) + 1]

cycle_timezone_rebuilds_config(i, cfg, tz, file, io) ==
    LET next == NextTimezone(timezones(i), cfg.timezone)
        cfg2 == [timezone |-> next, ntp_servers |-> 0]
    IN  IF PytzKnows(next)
        THEN [config |-> cfg2, timezone |-> next,
              config_file |-> save_config(file, cfg2, io)]
        ELSE [config |-> cfg2, timezone |-> tz, config_file |-> file]

\* The state cycle_timezone leaves behind: config['timezone'] is assigned
\* first; pytz.timezone() may then raise, and the except clause skips the
\* assignment of self.timezone and the save.
cycle_timezone(i, cfg, tz, file, io) ==
    LET next == NextTimezone(timezones(i), cfg.timezone)
        cfg2 == [cfg EXCEPT !.timezone = next]
    IN  IF PytzKnows(next)
        THEN [config |-> cfg2, timezone |-> next,
              config_file |-> save_config(file, cfg2, io)]
        ELSE [config |-> cfg2, timezone |-> tz, config_file |-> file]

(***************************************************************************)
(* sync_ntp: one iteration of the loop over config['ntp_servers'].         *)
(* log is the sequence of <<server, result>> tried so far by this call;    *)
(* the servers are numbered by their position in the list.                 *)
(***************************************************************************)
StampOnFailure(ok) == TRUE

\* self.last_ntp_sync = time.time() is executed only after check_call
\* returned without raising.
Stamps(ok) == ok

ReturnsNever(ok) == FALSE

\* return True follows a successful check_call: the loop stops there.
ReturnsOnSuccess(ok) == ok

sync_ntp_step(log, servers, ok) ==
    IF Len(log) >= servers
    THEN [done |-> TRUE, ret |-> FALSE, log |-> log, stamp |-> FALSE]
    ELSE LET log2 == Append(log, <<Len(log) + 1, ok>>)
         IN  IF ReturnsOnSuccess(ok)
             THEN [done |-> TRUE, ret |-> TRUE, log |-> log2, stamp |-> Stamps(ok)]
             ELSE IF Len(log2) >= servers
             THEN [done |-> TRUE, ret |-> FALSE, log |-> log2, stamp |-> Stamps(ok)]
             ELSE [done |-> FALSE, ret |-> FALSE, log |-> log2, stamp |-> Stamps(ok)]

NoReturn == [valid |-> FALSE, ret |-> FALSE, log |-> <<>>, pre |-> 0]

\* No sync_ntp call has returned False yet; on says whether such returns
\* are recorded in this run.
NoFailure(on) == [on |-> on, valid |-> FALSE, at |-> 0]

\* What a step of sync_ntp leaves in last_ntp_sync and returns. The return
\* False after the loop changes nothing of the object; failed_at records
\* when it happened.
SyncEffect(r) ==
    /\ last_ntp_sync' = IF r.stamp THEN now ELSE last_ntp_sync
    /\ failed_at' = IF failed_at.on /\ r.done /\ ~r.ret
                     THEN [failed_at EXCEPT !.valid = TRUE, !.at = now]
                     ELSE failed_at
    /\ returned' = IF r.done
                   THEN [valid |-> TRUE, ret |-> r.ret, log |-> r.log,
                         pre |-> last_ntp_sync]
                   ELSE NoReturn


(***************************************************************************)
(* Start: the state __init__ leaves behind.                                *)
(***************************************************************************)
Callers == {"tick", "other"}          \* threads that may call update_display
SyncCallers == {"main", "tick", "button"}   \* synchronous callers of sync_ntp

\* The stored file a run starts from for a loaded timezone and server list:
\* no file for the defaults, else a file holding the keys that differ.
StoredFile(tz, servers) ==
    LET keys == (IF tz = "UTC" THEN {} ELSE {"timezone"})
                \cup (IF servers = DefaultServers THEN {} ELSE {"ntp_servers"})
    IN  IF keys = {} THEN AbsentFile
        ELSE [state |-> "ok", keys |-> keys, timezone |-> tz,
              ntp_servers |-> servers]

\* No function is under test.
NoProbe == [fn |-> "none", arg |-> <<>>, done |-> FALSE, out |-> <<>>]

\* The attributes __init__ sets whatever the stored file holds.
InitFields ==
    /\ impl \in Impls
    /\ config = load_config(config_file)
    /\ current_mode = 0
    /\ released = FALSE
    /\ running = TRUE
    /\ display_lock = "free"
    /\ last_ntp_sync = 0
    /\ now = StartTime
    /\ dpc = "unstarted"
    /\ bpc = "idle"
    /\ upd = [t \in Callers |-> "out"]
    /\ sent = [t \in Callers |-> "none"]
    /\ fault = [t \in Callers |-> "none"]
    /\ call = [c \in SyncCallers |-> <<>>]
    /\ threads = EmptyBag
    /\ returned = NoReturn
    /\ next_count = 0

\* __init__ has returned: the stored timezone named a zone, run is next.
InitCommon ==
    /\ InitFields
    /\ timezone = config.timezone
    /\ mpc = "run"

\* The whole program, started with no stored file (the default Config) on
\* a disk whose writes succeed, with or without a display, with or without
\* the buttons.
Init ==
    /\ config_file = StoredFile("UTC", DefaultServers)
    /\ disk = "good"
    /\ device \in BOOLEAN
    /\ gpio \in BOOLEAN
    /\ InitCommon
    /\ cyc = [on |-> FALSE, orig |-> config.timezone, n |-> 0]
    /\ failed_at = NoFailure(FALSE)
    /\ probe = NoProbe

\* The process lives from the return of __init__ until run() returns; the
\* other threads are daemons.
Alive == mpc \in {"run", "isync", "loop", "cleanup"}

(***************************************************************************)
(* button_callback (GPIO callback thread, one callback at a time).         *)
(***************************************************************************)
SpawnSync == threads' = threads (+) SetToBag({<<>>})

\* First button: next display mode.
ButtonNextMode ==
    /\ Alive /\ gpio /\ bpc = "idle"
    /\ next_count < MaxPresses
    /\ current_mode' = NextMode(current_mode, Len(display_modes(impl)))
    /\ next_count' = next_count + 1
    /\ returned' = NoReturn
    /\ UNCHANGED <<impl, gpio, probe, failed_at, config, config_file, disk, timezone, device, released,
                   running, display_lock, last_ntp_sync, now, mpc, dpc, bpc,
                   upd, sent, fault, call, threads, cyc>>

\* Second button: cycle_timezone.
ButtonCycleTz ==
    /\ Alive /\ gpio /\ bpc = "idle"
    /\ cyc.n < (IF cyc.on THEN MaxCycles ELSE MaxTzEvents)
    /\ \E io \in SaveOutcomes(disk) :
         LET r == cycle_timezone(impl, config, timezone, config_file, io)
         IN  /\ config' = r.config
             /\ timezone' = r.timezone
             /\ config_file' = r.config_file
    /\ cyc' = [cyc EXCEPT !.n = @ + 1]
    /\ returned' = NoReturn
    /\ UNCHANGED <<impl, gpio, probe, failed_at, disk, current_mode, device, released, running, display_lock,
                   last_ntp_sync, now, mpc, dpc, bpc, upd, sent, fault,
                   call, threads, next_count>>

\* Third button: sync_ntp, called in the callback (monitor) or started as a
\* daemon thread (installer).
ButtonForceSync ==
    /\ Alive /\ gpio /\ bpc = "idle"
    /\ IF impl = "monitor"
       THEN /\ bpc' = "sync"
            /\ call' = [call EXCEPT !["button"] = <<>>]
            /\ UNCHANGED threads
       ELSE /\ BagCardinality(threads) < MaxSyncThreads
            /\ SpawnSync
            /\ UNCHANGED <<bpc, call>>
    /\ returned' = NoReturn
    /\ UNCHANGED <<impl, gpio, probe, failed_at, config, config_file, disk, timezone, current_mode, device,
                   released, running, display_lock, last_ntp_sync, now, mpc,
                   dpc, upd, sent, fault, next_count, cyc>>

\* The callback thread inside sync_ntp (monitor): one server attempt.
ButtonSyncStep ==
    /\ Alive /\ bpc = "sync"
    /\ \E ok \in BOOLEAN :
         LET r == sync_ntp_step(call["button"], config.ntp_servers, ok)
         IN  /\ call' = [call EXCEPT !["button"] = IF r.done THEN <<>> ELSE r.log]
             /\ bpc' = IF r.done THEN "idle" ELSE "sync"
             /\ SyncEffect(r)
    /\ UNCHANGED <<impl, gpio, probe, config, config_file, disk, timezone, current_mode, device,
                   released, running, display_lock, now, mpc, dpc, upd, sent, fault, threads, next_count, cyc>>


(***************************************************************************)
(* Main thread: run, signal_handler, cleanup.                              *)
(***************************************************************************)
LoopForever(flag) == TRUE

\* The test of "while self.running:" in run and in display_thread.
LoopContinues(flag) == flag

\* run: install the signal handlers, then the initial sync: called in place
\* (monitor) or started as a daemon thread (installer, which then starts the
\* display thread at once).
RunStart ==
    /\ mpc = "run"
    /\ IF impl = "monitor"
       THEN /\ mpc' = "isync"
            /\ UNCHANGED <<dpc, threads>>
       ELSE /\ SpawnSync
            /\ dpc' = "loop"
            /\ mpc' = "loop"
    /\ returned' = NoReturn
    /\ UNCHANGED <<impl, gpio, probe, failed_at, config, config_file, disk, timezone, current_mode, device,
                   released, running, display_lock, last_ntp_sync, now, bpc,
                   upd, sent, fault, call, next_count, cyc>>

\* run inside the initial sync_ntp (monitor): one server attempt; when the
\* call returns the display thread is started.
MainSyncStep ==
    /\ mpc = "isync"
    /\ \E ok \in BOOLEAN :
         LET r == sync_ntp_step(call["main"], config.ntp_servers, ok)
         IN  /\ call' = [call EXCEPT !["main"] = IF r.done THEN <<>> ELSE r.log]
             /\ mpc' = IF r.done THEN "loop" ELSE "isync"
             /\ dpc' = IF r.done THEN "loop" ELSE dpc
             /\ SyncEffect(r)
    /\ UNCHANGED <<impl, gpio, probe, config, config_file, disk, timezone, current_mode, device,
                   released, running, display_lock, now, bpc, upd, sent,
                   fault, threads, next_count, cyc>>

\* SIGINT or SIGTERM, once run has installed the handler.
signal_handler ==
    /\ mpc \in {"isync", "loop"}
    /\ running
    /\ running' = FALSE
    /\ returned' = NoReturn
    /\ UNCHANGED <<impl, gpio, probe, failed_at, config, config_file, disk, timezone, current_mode, device,
                   released, display_lock, last_ntp_sync, now, mpc, dpc, bpc,
                   upd, sent, fault, call, threads, next_count, cyc>>

\* run: "while self.running: time.sleep(1)" ends; the finally clause follows.
MainLoopExit ==
    /\ mpc = "loop"
    /\ ~LoopContinues(running)
    /\ mpc' = "cleanup"
    /\ returned' = NoReturn
    /\ UNCHANGED <<impl, gpio, probe, failed_at, config, config_file, disk, timezone, current_mode, device,
                   released, running, display_lock, last_ntp_sync, now, dpc,
                   bpc, upd, sent, fault, call, threads, next_count, cyc>>

\* cleanup: running = False, device.cleanup(), GPIO.cleanup(); run returns.
cleanup ==
    /\ mpc = "cleanup"
    /\ running' = FALSE
    /\ released' = device
    /\ mpc' = "done"
    /\ returned' = NoReturn
    /\ UNCHANGED <<impl, gpio, probe, failed_at, config, config_file, disk, timezone, current_mode, device,
                   display_lock, last_ntp_sync, now, dpc, bpc, upd, sent,
                   fault, call, threads, next_count, cyc>>

(***************************************************************************)
(* Display thread: display_thread, auto_ntp_sync.                          *)
(***************************************************************************)
\* auto_ntp_sync: time.time() - self.last_ntp_sync > self.ntp_sync_interval
SyncDue(t, last) == t - last > ntp_sync_interval

\* "while self.running:" in display_thread.
DisplayLoop ==
    /\ Alive /\ dpc = "loop"
    /\ dpc' = IF LoopContinues(running) THEN "auto" ELSE "exited"
    /\ returned' = NoReturn
    /\ UNCHANGED <<impl, gpio, probe, failed_at, config, config_file, disk, timezone, current_mode, device,
                   released, running, display_lock, last_ntp_sync, now, mpc,
                   bpc, upd, sent, fault, call, threads, next_count, cyc>>

\* auto_ntp_sync, then the call of update_display.
DisplayAutoSync ==
    /\ Alive /\ dpc = "auto"
    /\ IF SyncDue(now, last_ntp_sync)
       THEN IF impl = "monitor"
            THEN /\ dpc' = "sync"
                 /\ UNCHANGED <<upd, threads>>
            ELSE /\ BagCardinality(threads) < MaxSyncThreads
                 /\ SpawnSync
                 /\ dpc' = "update"
                 /\ upd' = [upd EXCEPT !["tick"] = "acquire"]
       ELSE /\ dpc' = "update"
            /\ upd' = [upd EXCEPT !["tick"] = "acquire"]
            /\ UNCHANGED threads
    /\ returned' = NoReturn
    /\ UNCHANGED <<impl, gpio, probe, failed_at, config, config_file, disk, timezone, current_mode, device,
                   released, running, display_lock, last_ntp_sync, now, mpc,
                   bpc, sent, fault, call, next_count, cyc>>

\* The display thread inside sync_ntp (monitor): one server attempt; when
\* the call returns, update_display is called.
DisplaySyncStep ==
    /\ Alive /\ dpc = "sync"
    /\ \E ok \in BOOLEAN :
         LET r == sync_ntp_step(call["tick"], config.ntp_servers, ok)
         IN  /\ call' = [call EXCEPT !["tick"] = r.log]
             /\ dpc' = IF r.done THEN "update" ELSE "sync"
             /\ upd' = IF r.done THEN [upd EXCEPT !["tick"] = "acquire"] ELSE upd
             /\ SyncEffect(r)
    /\ UNCHANGED <<impl, gpio, probe, config, config_file, disk, timezone, current_mode, device,
                   released, running, display_lock, now, mpc, bpc, sent,
                   fault, threads, next_count, cyc>>

\* time.sleep(refresh_rate), or time.sleep(5) after a fault: the tick is over.
DisplaySleep ==
    /\ Alive /\ dpc = "sleep"
    /\ dpc' = "loop"
    /\ sent' = [sent EXCEPT !["tick"] = "none"]
    /\ fault' = [fault EXCEPT !["tick"] = "none"]
    /\ call' = [call EXCEPT !["tick"] = <<>>]
    /\ returned' = NoReturn
    /\ UNCHANGED <<impl, gpio, probe, failed_at, config, config_file, disk, timezone, current_mode,
                   device, released, running, display_lock, last_ntp_sync, now,
                   mpc, bpc, upd, threads, next_count, cyc>>

(***************************************************************************)
(* update_display, for the caller t.                                       *)
(***************************************************************************)
LockIgnored(lock) == TRUE

\* "with self.display_lock:" enters only when no thread holds the lock.
LockFree(lock) == lock = "free"

FaultsEscape(f) == IF f = "none" THEN "data" ELSE "none"

\* What reaches the device for a fault f raised while rendering. A fault in
\* the draw function is caught there and the "... Error" text is drawn; a
\* get_* function that fails returns None and the "unavailable" text is
\* drawn; both canvases are transmitted. A fault of the canvas itself or of
\* device.display() escapes to the except clause of update_display: the
\* canvas transmits only when its block ends without an exception.
Transmitted(f) ==
    CASE f = "none"     -> "data"
      [] f = "draw"     -> "error"
      [] f = "metric"   -> "unavailable"
      [] f = "canvas"   -> "none"
      [] f = "transmit" -> "none"

\* The faults a render of the mode can raise; draw_datetime reads no metric.
RenderFaults(mode) ==
    IF mode = 0 THEN {"none", "draw", "canvas", "transmit"}
    ELSE {"none", "draw", "metric", "canvas", "transmit"}

\* update_display returns: the tick goes on to its sleep.
UpdateReturns(t) ==
    /\ upd' = [upd EXCEPT ![t] = "out"]
    /\ dpc' = IF t = "tick" THEN "sleep" ELSE dpc

DeviceAssumed(d) == TRUE

\* The test of "if not self.device: return" lets the render go on.
HasDevice(d) == d

\* "with self.display_lock:", then "if not self.device: return".
UpdateAcquire(t) ==
    /\ Alive /\ upd[t] = "acquire"
    /\ LockFree(display_lock)
    /\ IF HasDevice(device)
       THEN /\ display_lock' = t
            /\ upd' = [upd EXCEPT ![t] = "render"]
            /\ UNCHANGED dpc
       ELSE /\ UpdateReturns(t)
            /\ UNCHANGED display_lock
    /\ returned' = NoReturn
    /\ UNCHANGED <<impl, gpio, probe, failed_at, config, config_file, disk, timezone, current_mode,
                   device, released, running, last_ntp_sync, now, mpc, bpc,
                   sent, fault, call, threads, next_count, cyc>>

\* "with canvas(self.device) as draw:", the draw function of the current
\* mode, the transmission when the canvas block ends, and the release of
\* the lock.
UpdateRender(t) ==
    /\ Alive /\ upd[t] = "render"
    /\ \E f \in RenderFaults(current_mode) :
         /\ fault' = [fault EXCEPT ![t] = f]
         /\ sent' = [sent EXCEPT ![t] = Transmitted(f)]
    /\ display_lock' = "free"
    /\ UpdateReturns(t)
    /\ returned' = NoReturn
    /\ UNCHANGED <<impl, gpio, probe, failed_at, config, config_file, disk, timezone, current_mode,
                   device, released, running, last_ntp_sync, now, mpc, bpc,
                   call, threads, next_count, cyc>>

(***************************************************************************)
(* sync_ntp daemon threads (installer) and the clock.                      *)
(***************************************************************************)
ThreadSyncStep ==
    /\ Alive
    /\ \E log \in BagToSet(threads), ok \in BOOLEAN :
         LET r == sync_ntp_step(log, config.ntp_servers, ok)
         IN  /\ threads' = (threads (-) SetToBag({log}))
                           (+) (IF r.done THEN EmptyBag ELSE SetToBag({r.log}))
             /\ SyncEffect(r)
    /\ UNCHANGED <<impl, gpio, probe, config, config_file, disk, timezone, current_mode, device,
                   released, running, display_lock, now, mpc, dpc, bpc, upd,
                   sent, fault, call, next_count, cyc>>

AdvanceTime ==
    /\ Alive
    /\ now < StartTime + MaxAdvance * TimeStep
    /\ now' = now + TimeStep
    /\ returned' = NoReturn
    /\ UNCHANGED <<impl, gpio, probe, failed_at, config, config_file, disk, timezone, current_mode, device,
                   released, running, display_lock, last_ntp_sync, mpc, dpc,
                   bpc, upd, sent, fault, call, threads, next_count, cyc>>

(***************************************************************************)
(* The program.                                                            *)
(***************************************************************************)
MainStep == RunStart \/ MainSyncStep \/ MainLoopExit \/ cleanup

DisplayStep ==
    \/ DisplayLoop \/ DisplayAutoSync \/ DisplaySyncStep \/ DisplaySleep
    \/ UpdateAcquire("tick") \/ UpdateRender("tick")

Next ==
    \/ ButtonNextMode
    \/ ButtonCycleTz
    \/ ButtonForceSync
    \/ ButtonSyncStep
    \/ RunStart
    \/ MainSyncStep
    \/ signal_handler
    \/ MainLoopExit
    \/ cleanup
    \/ DisplayLoop
    \/ DisplayAutoSync
    \/ DisplaySyncStep
    \/ DisplaySleep
    \/ UpdateAcquire("tick")
    \/ UpdateRender("tick")
    \/ ThreadSyncStep
    \/ AdvanceTime

Spec == Init /\ [][Next]_vars

(***************************************************************************)
(* The timezone button alone, from every timezone the program can start    *)
(* with, on a disk whose writes may fail. CycleRestart opens a new test     *)
(* window at the current timezone.                                         *)
(***************************************************************************)
InitCycle ==
    /\ config_file \in {StoredFile(tz, DefaultServers) :
                           tz \in {z \in Range(timezones("monitor"))
                                         \cup Range(timezones("installer"))
                                         \cup {UnlistedZone} : PytzKnows(z)}}
    /\ disk = "faulty"
    /\ device \in BOOLEAN
    /\ gpio = TRUE
    /\ InitCommon
    /\ cyc = [on |-> TRUE, orig |-> config.timezone, n |-> 0]
    /\ failed_at = NoFailure(FALSE)
    /\ probe = NoProbe

CycleRestart ==
    /\ cyc.on /\ cyc.n > 0
    /\ cyc' = [cyc EXCEPT !.orig = config.timezone, !.n = 0]
    /\ UNCHANGED <<impl, gpio, probe, failed_at, config, config_file, disk, timezone, current_mode,
                   device, released, running, display_lock, last_ntp_sync, now,
                   mpc, dpc, bpc, upd, sent, fault, call, threads, returned,
                   next_count>>

NextCycle == ButtonCycleTz \/ CycleRestart

SpecCycle == InitCycle /\ [][NextCycle]_vars

(***************************************************************************)
(* The sync paths, for every length of the stored server list, on a host   *)
(* with no display.                                                        *)
(***************************************************************************)
InitSync ==
    /\ config_file \in {StoredFile("UTC", n) : n \in 0..MaxServers}
    /\ disk = "good"
    /\ device = FALSE
    /\ gpio = TRUE
    /\ InitCommon
    /\ cyc = [on |-> FALSE, orig |-> config.timezone, n |-> 0]
    /\ failed_at = NoFailure(TRUE)
    /\ probe = NoProbe

NextSync ==
    \/ ButtonForceSync
    \/ ButtonSyncStep
    \/ RunStart
    \/ MainSyncStep
    \/ signal_handler
    \/ MainLoopExit
    \/ cleanup
    \/ DisplayLoop
    \/ DisplayAutoSync
    \/ DisplaySyncStep
    \/ DisplaySleep
    \/ UpdateAcquire("tick")
    \/ ThreadSyncStep
    \/ AdvanceTime

SpecSync == InitSync /\ [][NextSync]_vars

(***************************************************************************)
(* update_display called by a second thread beside the display thread.     *)
(***************************************************************************)
OtherCall ==
    /\ Alive /\ upd["other"] = "out"
    /\ upd' = [upd EXCEPT !["other"] = "acquire"]
    /\ sent' = [sent EXCEPT !["other"] = "none"]
    /\ fault' = [fault EXCEPT !["other"] = "none"]
    /\ returned' = NoReturn
    /\ UNCHANGED <<impl, gpio, probe, failed_at, config, config_file, disk, timezone, current_mode,
                   device, released, running, display_lock, last_ntp_sync, now,
                   mpc, dpc, bpc, call, threads, next_count, cyc>>

NextCallers ==
    \/ ButtonNextMode
    \/ RunStart
    \/ MainSyncStep
    \/ signal_handler
    \/ MainLoopExit
    \/ cleanup
    \/ DisplayLoop
    \/ DisplayAutoSync
    \/ DisplaySyncStep
    \/ DisplaySleep
    \/ UpdateAcquire("tick")
    \/ UpdateRender("tick")
    \/ ThreadSyncStep
    \/ OtherCall
    \/ UpdateAcquire("other")
    \/ UpdateRender("other")

SpecCallers == Init /\ [][NextCallers]_vars


(***************************************************************************)
(* Claims.                                                                 *)
(***************************************************************************)
ModeCount == Len(display_modes(impl))

\* C1: after N handled NEXT_MODE events, interleaved with every other event
\* and tick, the mode index is N mod the number of display modes.
C1_ModeIndexIsCountModModes == current_mode = next_count % ModeCount

\* C1 witness: more NEXT_MODE events than modes, the index has wrapped.
C1_Witness == next_count = ModeCount + 1 /\ current_mode = 1 /\ cyc.n > 0 /\ dpc = "sleep"

\* C2: every handled CYCLE_TZ event sets Config.timezone to the next list
\* entry (wrapping, an unknown value counting as index 0), saves the Config
\* and re-derives the active zone: afterwards the active zone is the one
\* Config.timezone names and the saved file carries that timezone.
C2_CycleTzSetsSavesRederives ==
    [][cyc'.n = cyc.n + 1 =>
         /\ config'.timezone = NextTimezone(timezones(impl), config.timezone)
         /\ timezone' = config'.timezone
         /\ config_file'.state = "ok"
         /\ config_file'.timezone = config'.timezone]_vars

ZoneList == timezones(impl)

\* C3 as stated: for every timezone the Config can hold, len(timezones)
\* CYCLE_TZ events in a row bring the Config back to it.
C3_CycleReturnsToAnyOriginal ==
    (cyc.on /\ cyc.n = Len(ZoneList)) => config.timezone = cyc.orig

\* C3 amended: len(timezones) CYCLE_TZ events in a row bring the Config back
\* to the original timezone when that is an entry of the list; from a
\* timezone outside the list they end on the first entry of the list.
C3_CycleReturnsToListedOriginal ==
    (cyc.on /\ cyc.n = Len(ZoneList)) =>
        config.timezone = IF cyc.orig \in Range(ZoneList) THEN cyc.orig
                          ELSE ZoneList[1]

\* C3 witness: a full cycle made from an entry in the middle of the list.
C3_Witness ==
    /\ cyc.on /\ cyc.n = Len(ZoneList)
    /\ cyc.orig = "Asia/Shanghai" /\ config.timezone = "Asia/Shanghai"

AnySuccess(log) == \E k \in 1..Len(log) : log[k][2]

\* C4: a sync attempt returns success exactly when one of the servers it
\* tried succeeded, and then last_ntp_sync is the current time; when every
\* server failed it returns failure and last_ntp_sync is what it was.
C4_SyncResultAndTimestamp ==
    returned.valid =>
        /\ returned.ret = AnySuccess(returned.log)
        /\ returned.ret => last_ntp_sync = now
        /\ ~returned.ret => last_ntp_sync = returned.pre

\* C4 witness: servers [A, B], A failed and B succeeded.
C4_Witness ==
    /\ returned.valid /\ returned.ret
    /\ returned.log = << <<1, FALSE>>, <<2, TRUE>> >>
    /\ last_ntp_sync = now /\ returned.pre # now

\* The logs of all sync attempts in flight, and of the one that just returned.
SyncLogs ==
    BagToSet(threads) \cup {call[c] : c \in SyncCallers} \cup {returned.log}

\* C5: within one sync attempt the servers are tried in configured order,
\* each at most once, a server only after every earlier one failed, and
\* none after a success.
C5_ServersTriedInOrderUntilSuccess ==
    \A log \in SyncLogs :
        /\ Len(log) <= config.ntp_servers
        /\ \A k \in 1..Len(log) : log[k][1] = k
        /\ \A k \in 1..Len(log) : \A j \in 1..(k-1) : ~log[j][2]

\* C5 witness: an attempt that tried every server of a list of two, the
\* second after the first failed, while another attempt is in flight.
C5_Witness ==
    /\ returned.valid /\ ~returned.ret /\ Len(returned.log) = 2
    /\ \E log \in BagToSet(threads) : Len(log) = 1

Rendering == {t \in Callers : upd[t] = "render"}

\* C6: at most one caller of update_display is drawing or transmitting,
\* and it holds the display lock.
C6_RenderMutualExclusion ==
    /\ Cardinality(Rendering) <= 1
    /\ \A t \in Rendering : display_lock = t

\* C6 witness: the tick renders while the other caller waits for the lock.
C6_Witness == upd["tick"] = "render" /\ upd["other"] = "acquire"

\* C7: a tick whose auto-sync check fires reaches its render step without
\* having waited for a server attempt.
C7_TickRendersWithoutWaiting ==
    /\ dpc # "sync"
    /\ dpc = "update" => call["tick"] = <<>>

\* C8: the FORCE_SYNC handler returns without waiting for the attempt: the
\* callback thread is never inside sync_ntp, so later button events are
\* handled while the attempt is in flight.
C8_ForceSyncHandlerReturnsAtOnce == bpc = "idle" /\ call["button"] = <<>>

\* C10 as stated: a tick whose render raised any fault sent a placeholder
\* frame, and the loop goes on.
C10_AnyFaultSendsPlaceholder ==
    /\ (dpc = "sleep" /\ fault["tick"] # "none") =>
           sent["tick"] \in {"error", "unavailable"}
    /\ dpc = "exited" => ~running

\* C10 amended: a fault in a draw function or in metric fetching sends the
\* placeholder frame for that tick; a fault in the canvas or transmit step
\* sends no frame for that tick; in every case the tick loop goes on and
\* ends only when the running flag is false.
C10_FaultDegradesTick ==
    /\ dpc = "sleep" =>
          /\ fault["tick"] = "draw" => sent["tick"] = "error"
          /\ fault["tick"] = "metric" => sent["tick"] = "unavailable"
          /\ fault["tick"] \in {"canvas", "transmit"} => sent["tick"] = "none"
    /\ fault["tick"] # "none" => dpc = "sleep"
    /\ dpc = "exited" => ~running

\* C10 witness: a tick whose draw function raised sent the error frame.
C10_Witness ==
    dpc = "sleep" /\ fault["tick"] = "draw" /\ sent["tick"] = "error" /\ running


(***************************************************************************)
(* Shutdown. The threads of the program with the inputs that start work    *)
(* in them: the signal, the sync button and the clock. The mode and        *)
(* timezone buttons are single steps of the callback thread that touch     *)
(* neither a loop nor a lock; they are left out here.                      *)
(* Scheduling: every thread that can take a step eventually takes one; the *)
(* inputs need not occur.                                                  *)
(***************************************************************************)
NextLive ==
    \/ ButtonForceSync
    \/ ButtonSyncStep
    \/ RunStart
    \/ MainSyncStep
    \/ signal_handler
    \/ MainLoopExit
    \/ cleanup
    \/ DisplayLoop
    \/ DisplayAutoSync
    \/ DisplaySyncStep
    \/ DisplaySleep
    \/ UpdateAcquire("tick")
    \/ UpdateRender("tick")
    \/ ThreadSyncStep
    \/ AdvanceTime

Fairness ==
    /\ WF_vars(MainStep)
    /\ WF_vars(DisplayStep)
    /\ WF_vars(ThreadSyncStep)
    /\ WF_vars(ButtonSyncStep)

FairSpec == Init /\ [][NextLive]_vars /\ Fairness

\* C9: once the running flag is false the main loop ends, cleanup runs and
\* run returns; the tick loop starts no further tick and is over, by its
\* own exit or with the process, when run has returned.
C9_ShutdownConverges ==
    /\ (~running) ~> (mpc = "done")
    /\ [](mpc = "done" => (~running /\ released = device))
    /\ [][(~running /\ dpc' = "auto") => dpc = "auto"]_vars

\* C9 witness: after a signal both loops have ended and cleanup has run.
C9_Witness ==
    mpc = "done" /\ dpc = "exited" /\ ~running /\ released /\ now > StartTime


(***************************************************************************)
(* Retry after a failed sync cycle.                                        *)
(***************************************************************************)
\* The display thread leaves auto_ntp_sync having started a sync attempt:
\* inside sync_ntp (monitor) or with one more daemon thread (installer).
TickStartsSync ==
    /\ dpc = "auto" /\ dpc' # "auto"
    /\ \/ dpc' = "sync"
       \/ BagCardinality(threads') = BagCardinality(threads) + 1

\* C11: after a sync cycle in which every server of a non-empty list failed,
\* the tick loop starts no sync attempt until more than the sync interval
\* has passed since that failed cycle.
C11_NoRetryBeforeNextInterval ==
    [][(config.ntp_servers > 0 /\ failed_at.valid /\ TickStartsSync) =>
          now - failed_at.at > ntp_sync_interval]_vars


(***************************************************************************)
(* load_config on its own: every key of the dictionary, for every stored   *)
(* file.                                                                   *)
(***************************************************************************)
\* default_config in load_config, every value written as its JSON text.
default_config(i) ==
    IF i = "monitor"
    THEN [k \in {"timezone", "display_brightness", "auto_brightness",
                 "ntp_servers", "display_timeout", "refresh_rate"} |->
            CASE k = "timezone"           -> "UTC"
              [] k = "display_brightness" -> "255"
              [] k = "auto_brightness"    -> "true"
              [] k = "ntp_servers"        -> "[pool.ntp.org, time.google.com]"
              [] k = "display_timeout"    -> "0"
              [] k = "refresh_rate"       -> "1.0"]
    ELSE [k \in {"timezone", "display_brightness", "ntp_servers",
                 "refresh_rate", "temperature_unit", "show_seconds"} |->
            CASE k = "timezone"           -> "UTC"
              [] k = "display_brightness" -> "255"
              [] k = "ntp_servers"        -> "[pool.ntp.org, time.google.com]"
              [] k = "refresh_rate"       -> "1.0"
              [] k = "temperature_unit"   -> "C"
              [] k = "show_seconds"       -> "true"]

\* The keys a stored file is drawn from: those of either default_config and
\* one that neither knows.
FileKeys ==
    DOMAIN default_config("monitor") \cup DOMAIN default_config("installer")
        \cup {"unknown_key"}

\* The stored files: none, an empty one, one that is not JSON, and a JSON
\* object over any set of keys, each key holding a value that is no default.
StoredFiles ==
    {[state |-> st, stored |-> <<>>] : st \in {"absent", "empty", "malformed"}}
    \cup {[state |-> "ok", stored |-> [k \in ks |-> "stored"]] :
             ks \in SUBSET FileKeys}

\* load_config: exists() is false, or json.load raises (an empty file is not
\* JSON) and the except clause leaves default_config as it was, or
\* default_config.update(config).
merged_config(i, file) ==
    IF file.state = "ok"
    THEN [k \in DOMAIN default_config(i) \cup DOMAIN file.stored |->
            IF k \in DOMAIN file.stored THEN file.stored[k]
            ELSE default_config(i)[k]]
    ELSE default_config(i)

\* The program at rest after construction, for the call of one function.
InitProbe ==
    /\ config_file = StoredFile("UTC", DefaultServers)
    /\ disk = "good"
    /\ device = FALSE
    /\ gpio = TRUE
    /\ InitCommon
    /\ cyc = [on |-> FALSE, orig |-> config.timezone, n |-> 0]
    /\ failed_at = NoFailure(FALSE)

ProbeReturns(out) ==
    /\ probe' = [probe EXCEPT !.done = TRUE, !.out = out]
    /\ UNCHANGED <<impl, gpio, config, config_file, disk, timezone, current_mode,
                   device, released, running, display_lock, last_ntp_sync, now,
                   mpc, dpc, bpc, upd, sent, fault, call, threads, returned,
                   next_count, cyc, failed_at>>

InitLoad ==
    /\ InitProbe
    /\ probe \in {[fn |-> "load_config", arg |-> f, done |-> FALSE, out |-> <<>>] :
                     f \in StoredFiles}

CallLoadConfig ==
    /\ probe.fn = "load_config" /\ ~probe.done
    /\ ProbeReturns(merged_config(impl, probe.arg))

SpecLoad == InitLoad /\ [][CallLoadConfig]_vars

\* The keys of the config file as documented.
DocumentedKeys ==
    {"timezone", "display_brightness", "ntp_servers", "refresh_rate",
     "temperature_unit", "show_seconds"}

\* C12: the loaded Config holds, for every key, the stored value when the
\* file holds the key and the default otherwise; from a missing, empty or
\* malformed file it holds exactly the documented keys, each at its default.
C12_LoadMergesDocumentedDefaults ==
    (probe.fn = "load_config" /\ probe.done) =>
        LET file == probe.arg
            cfg == probe.out
        IN  /\ file.state = "ok" =>
                  \A k \in DOMAIN cfg :
                      cfg[k] = IF k \in DOMAIN file.stored THEN "stored"
                               ELSE default_config(impl)[k]
            /\ file.state # "ok" =>
                  /\ DOMAIN cfg = DocumentedKeys
                  /\ \A k \in DOMAIN cfg : cfg[k] = default_config(impl)[k]


(***************************************************************************)
(* The process from the last statements of __init__ on, for a stored       *)
(* timezone that is the default, another zone, or no zone name at all.     *)
(***************************************************************************)
\* A stored timezone value that names no zone of the tz database.
UnknownZone == "PST"

InitStart ==
    /\ config_file \in {StoredFile(tz, DefaultServers) :
                           tz \in {"UTC", UnlistedZone, UnknownZone}}
    /\ disk = "good"
    /\ device \in BOOLEAN
    /\ gpio = TRUE
    /\ InitFields
    /\ timezone = "unset"
    /\ mpc = "init"
    /\ cyc = [on |-> FALSE, orig |-> config.timezone, n |-> 0]
    /\ failed_at = NoFailure(FALSE)
    /\ probe = NoProbe

\* __init__: self.timezone = pytz.timezone(self.config.get('timezone', 'UTC')).
\* The statement stands in no try block, and neither does the call
\* NanoPiOLEDMonitor() at the bottom of the file: an exception raised here
\* ends the process.
NanoPiOLEDMonitor ==
    /\ mpc = "init"
    /\ IF PytzKnows(config.timezone)
       THEN /\ timezone' = config.timezone
            /\ mpc' = "run"
       ELSE /\ mpc' = "crashed"
            /\ UNCHANGED timezone
    /\ returned' = NoReturn
    /\ UNCHANGED <<impl, gpio, probe, failed_at, config, config_file, disk,
                   current_mode, device, released, running, display_lock,
                   last_ntp_sync, now, dpc, bpc, upd, sent, fault, call,
                   threads, next_count, cyc>>

NextStart == NanoPiOLEDMonitor \/ NextLive

SpecStart == InitStart /\ [][NextStart]_vars

\* C13: no fault ends the process: it is never terminated by an exception,
\* and the main loop is left only with the running flag false.
C13_NoFaultTerminatesProcess ==
    /\ mpc # "crashed"
    /\ mpc \in {"cleanup", "done"} => ~running


(***************************************************************************)
(* The set of display modes.                                               *)
(***************************************************************************)
\* The display modes as documented: DateTime, SystemInfo, NetworkInfo,
\* Temperature, Uptime, under the names the code gives them.
DocumentedModes ==
    <<"datetime", "system_info", "network_info", "temperature", "uptime">>

\* C14: the mode index lies in 0..4, and NEXT_MODE reaches each of the five
\* documented modes in order: after k < 5 events from startup the current
\* mode, the one update_display draws, is the k-th documented mode.
C14_FiveModesReachableInOrder ==
    /\ current_mode \in 0..4
    /\ next_count < Len(DocumentedModes) =>
          /\ current_mode + 1 <= Len(display_modes(impl))
          /\ display_modes(impl)[current_mode + 1] = DocumentedModes[next_count + 1]


(***************************************************************************)
(* Missing hardware.                                                       *)
(***************************************************************************)
\* C15: with no display every update_display of the tick transmits nothing,
\* raises nothing and holds no lock when it returns; the tick loop ends only
\* when the running flag is false; the buttons still set the mode index and
\* the Config timezone. With no buttons no button event is handled and the
\* tick loop runs all the same.
C15_MissingHardwareIsNoOp ==
    /\ ~device =>
          /\ sent["tick"] = "none" /\ fault["tick"] = "none"
          /\ upd["tick"] # "render" /\ display_lock = "free"
          /\ dpc = "exited" => ~running
          /\ current_mode = next_count % ModeCount
          /\ config.timezone = ZoneList[(cyc.n % Len(ZoneList)) + 1]
    /\ ~gpio =>
          /\ next_count = 0 /\ cyc.n = 0 /\ bpc = "idle"
          /\ dpc = "exited" => ~running

\* C15 witness: with no display a tick has run its update and the loop is
\* still running, after a NEXT_MODE and a CYCLE_TZ event were handled.
C15_Witness ==
    /\ ~device /\ dpc = "sleep" /\ running
    /\ next_count > 0 /\ current_mode = 1
    /\ cyc.n = 1 /\ config.timezone = ZoneList[2]


(***************************************************************************)
(* draw_temperature on its own. A temperature is an integer number of      *)
(* thousandths of a degree, as the sensor file holds it; get_temperature   *)
(* divides it by 1000.0.                                                   *)
(***************************************************************************)
status_inclusive(temp) ==
    IF temp <= 50 * 1000 THEN "COOL"
    ELSE IF temp <= 70 * 1000 THEN "WARM" ELSE "HOT!"

\* "COOL" if temp < 50 else "WARM" if temp < 70 else "HOT!"
status(temp) ==
    IF temp < 50 * 1000 THEN "COOL"
    ELSE IF temp < 70 * 1000 THEN "WARM" ELSE "HOT!"

\* draw_temperature for a reading: the CPU line and the status line. Only
\* the installer implementation reads config['temperature_unit'];
\* temp_f = (temp * 9/5) + 32.
draw_temperature(i, unit, temp) ==
    [unit   |-> IF i = "installer" /\ unit = "F" THEN "F" ELSE "C",
     shown  |-> IF i = "installer" /\ unit = "F"
                THEN (temp * 9) \div 5 + 32 * 1000 ELSE temp,
     status |-> status(temp)]

\* The sensor readings: every tenth of a degree from 0 to MaxTenths / 10,
\* one below zero and the last thousandth below each band limit.
TempReadings ==
    {100 * t : t \in 0..MaxTenths} \cup {0 - 5000, 49999, 69999}

InitTemp ==
    /\ InitProbe
    /\ probe \in {[fn |-> "draw_temperature",
                    arg |-> [unit |-> u, temp |-> t],
                    done |-> FALSE, out |-> <<>>] :
                     u \in {"C", "F"}, t \in TempReadings}

CallDrawTemperature ==
    /\ probe.fn = "draw_temperature" /\ ~probe.done
    /\ ProbeReturns(draw_temperature(impl, probe.arg.unit, probe.arg.temp))

SpecTemp == InitTemp /\ [][CallDrawTemperature]_vars

\* C16: the status drawn for a Celsius reading is COOL below 50 degrees,
\* WARM from 50 up to but not including 70, HOT! from 70 on, whatever the
\* display unit is.
C16_StatusBandsOfCelsius ==
    (probe.fn = "draw_temperature" /\ probe.done) =>
        LET c == probe.arg.temp
        IN  /\ c < 50000 => probe.out.status = "COOL"
            /\ (50000 <= c /\ c < 70000) => probe.out.status = "WARM"
            /\ c >= 70000 => probe.out.status = "HOT!"

\* C16 witness: 50.0 degrees Celsius drawn in Fahrenheit (122.0) is WARM.
C16_Witness ==
    /\ probe.fn = "draw_temperature" /\ probe.done
    /\ probe.arg.temp = 50000 /\ probe.out.unit = "F"
    /\ probe.out.shown = 122000 /\ probe.out.status = "WARM"


(***************************************************************************)
(* get_uptime on its own (installer implementation). An uptime is an       *)
(* integer number of hundredths of a second, as /proc/uptime prints it.    *)
(***************************************************************************)
uptime_minutes_total(u) == u \div (60 * 100)

\* minutes = int((uptime_seconds % 3600) // 60)
uptime_minutes(u) == (u % (3600 * 100)) \div (60 * 100)

get_uptime(u) ==
    [days    |-> u \div (86400 * 100),
     hours   |-> (u % (86400 * 100)) \div (3600 * 100),
     minutes |-> uptime_minutes(u)]

\* Uptimes around every limit of a minute, an hour and a day.
Uptimes ==
    {(d * 86400 + h * 3600 + m * 60 + sec) * 100 + f :
        d \in 0..MaxDays, h \in {0, 1, 23}, m \in {0, 1, 59},
        sec \in {0, 1, 59}, f \in {0, 57, 99}}

InitUptime ==
    /\ InitProbe
    /\ impl = "installer"
    /\ probe \in {[fn |-> "get_uptime", arg |-> u, done |-> FALSE, out |-> <<>>] :
                     u \in Uptimes}

CallGetUptime ==
    /\ probe.fn = "get_uptime" /\ ~probe.done
    /\ ProbeReturns(get_uptime(probe.arg))

SpecUptime == InitUptime /\ [][CallGetUptime]_vars

\* C17: for s seconds since boot, days = s div 86400, hours = (s mod 86400)
\* div 3600, minutes = ((s mod 86400) mod 3600) div 60; hours < 24,
\* minutes < 60, and the three together are s rounded down to the minute.
\* (s is probe.arg / 100.)
C17_UptimeDecomposition ==
    (probe.fn = "get_uptime" /\ probe.done) =>
        LET u == probe.arg
            r == probe.out
            whole == (r.days * 86400 + r.hours * 3600 + r.minutes * 60) * 100
        IN  /\ r.days = u \div 8640000
            /\ r.hours = (u % 8640000) \div 360000
            /\ r.minutes = ((u % 8640000) % 360000) \div 6000
            /\ r.hours < 24 /\ r.minutes < 60
            /\ whole <= u /\ u < whole + 6000

\* C17 witness: 90061.57 s is 1 day, 1 hour, 1 minute.
C17_Witness ==
    /\ probe.fn = "get_uptime" /\ probe.done /\ probe.arg = 9006157
    /\ probe.out = [days |-> 1, hours |-> 1, minutes |-> 1]


(***************************************************************************)
(* What each operation leaves alone.                                       *)
(***************************************************************************)
\* C18: the Config changes only in a CYCLE_TZ event and only in its
\* timezone; the mode index is 0 at startup and changes only in a NEXT_MODE
\* event; last_ntp_sync changes only in a sync step that returns success.
\* A NEXT_MODE event leaves the Config, the active timezone and
\* last_ntp_sync as they are, a CYCLE_TZ event the mode index and
\* last_ntp_sync, a step of the tick's update_display the mode index and the
\* Config.
C18_SingleMutatorPerState ==
    [][/\ config' # config =>
             (cyc'.n = cyc.n + 1 /\ config'.ntp_servers = config.ntp_servers)
       /\ next_count = 0 => current_mode = 0
       /\ current_mode' # current_mode => next_count' = next_count + 1
       /\ last_ntp_sync' # last_ntp_sync => (returned'.valid /\ returned'.ret)
       /\ next_count' # next_count =>
             UNCHANGED <<config, config_file, timezone, last_ntp_sync>>
       /\ cyc'.n # cyc.n => UNCHANGED <<current_mode, last_ntp_sync>>
       /\ upd'["tick"] # upd["tick"] => UNCHANGED <<current_mode, config>>
      ]_vars

\* C18 witness: a NEXT_MODE event, a CYCLE_TZ event, a successful sync and a
\* rendered tick have all happened, each having changed its own state only.
C18_Witness ==
    /\ next_count = 1 /\ current_mode = 1
    /\ cyc.n = 1 /\ config.timezone = ZoneList[2]
    /\ config.ntp_servers = DefaultServers
    /\ last_ntp_sync = now
    /\ dpc = "sleep" /\ sent["tick"] = "data"


(***************************************************************************)
(* Shutdown against rendering; concurrent sync attempts.                   *)
(***************************************************************************)
\* C19: the device is never released while the tick is inside the locked
\* section of update_display, between taking the lock and the end of the
\* transmission.
C19_NoReleaseDuringRender ==
    released => (upd["tick"] # "render" /\ display_lock # "tick")

\* The sync_ntp calls in progress: the daemon threads and the synchronous
\* calls of the main, display and callback threads.
InFlight ==
    BagCardinality(threads)
    + (IF mpc = "isync" THEN 1 ELSE 0)
    + (IF dpc = "sync" THEN 1 ELSE 0)
    + (IF bpc = "sync" THEN 1 ELSE 0)

\* C20: at most one sync attempt is in progress at any time.
C20_AtMostOneSyncInFlight == InFlight <= 1

====
